---------------------------- MODULE Spec2Model ----------------------------
(***************************************************************************)
(* Black-Scholes option pricer (ryantandiono/option_pricer).               *)
(*                                                                         *)
(* src/bs_functions.py: black_scholes (the Pricer) and option_greeks (the  *)
(* Sensitivity Engine); src/app.py: main, the Streamlit page that calls    *)
(* them.                                                                   *)
(*                                                                         *)
(* Numbers.  The program computes in IEEE-754 binary64.  The model keeps   *)
(* the structure of that format (signed zero, subnormals, +-inf, NaN,      *)
(* round to nearest even, binary64's exponent range) and narrows the       *)
(* significand to Prec bits, so that every operation is computed exactly   *)
(* in TLC's integers.  + - * / and sqrt are correctly rounded; log, exp    *)
(* and the normal cdf are evaluated in fixed point from tables and then    *)
(* rounded.  What a formula of this module says about magnitudes is said   *)
(* of these Prec-bit numbers; what it says about zero, sign, infinity,     *)
(* NaN, exceptions, shapes and the order of calls carries over unchanged.  *)
(***************************************************************************)
EXTENDS Integers, Sequences, FiniteSets, TLC

(***************************************************************************)
(* Floating point                                                          *)
(***************************************************************************)
\* significand width of the model's floats (binary64: 53)
Prec == 5
\* exponent of the smallest subnormal (binary64: 2^-1074)
EMin == -1074
\* exponent bound: a finite float is below 2^EMax (binary64: 2^1024)
EMax == 1024

Fin(s, m, e) == [k |-> "fin", s |-> s, m |-> m, e |-> e]
Zero(s) == Fin(s, 0, 0)
Inf(s) == [k |-> "inf", s |-> s, m |-> 0, e |-> 0]
NaN == [k |-> "nan", s |-> 0, m |-> 0, e |-> 0]

IsNaN(x) == x.k = "nan"
IsInf(x) == x.k = "inf"
IsFinite(x) == x.k = "fin"
IsZero(x) == x.k = "fin" /\ x.m = 0
IsPos(x) == x.s = 0 /\ (x.k = "inf" \/ (x.k = "fin" /\ x.m > 0))
IsNeg(x) == x.s = 1 /\ (x.k = "inf" \/ (x.k = "fin" /\ x.m > 0))

\* number of bits of n, 0 <= n < 2^31
BitLen(n) ==
  IF n < 65536
    THEN IF n < 256
           THEN IF n < 16
                  THEN IF n < 4 THEN (IF n < 2 THEN n ELSE 2)
                                ELSE (IF n < 8 THEN 3 ELSE 4)
                  ELSE IF n < 64 THEN (IF n < 32 THEN 5 ELSE 6)
                                 ELSE (IF n < 128 THEN 7 ELSE 8)
           ELSE IF n < 4096
                  THEN IF n < 1024 THEN (IF n < 512 THEN 9 ELSE 10)
                                   ELSE (IF n < 2048 THEN 11 ELSE 12)
                  ELSE IF n < 16384 THEN (IF n < 8192 THEN 13 ELSE 14)
                                    ELSE (IF n < 32768 THEN 15 ELSE 16)
    ELSE IF n < 16777216
           THEN IF n < 1048576
                  THEN IF n < 262144 THEN (IF n < 131072 THEN 17 ELSE 18)
                                     ELSE (IF n < 524288 THEN 19 ELSE 20)
                  ELSE IF n < 4194304 THEN (IF n < 2097152 THEN 21 ELSE 22)
                                      ELSE (IF n < 8388608 THEN 23 ELSE 24)
           ELSE IF n < 268435456
                  THEN IF n < 67108864 THEN (IF n < 33554432 THEN 25 ELSE 26)
                                       ELSE (IF n < 134217728 THEN 27 ELSE 28)
                  ELSE IF n < 1073741824 THEN (IF n < 536870912 THEN 29 ELSE 30)
                                         ELSE 31

\* A finite float from its parts, or the infinity it overflows to
Pack(s, m, e) ==
  IF m = 0 THEN Zero(s)
  ELSE IF m >= 2 ^ (Prec - 1) /\ e + Prec > EMax THEN Inf(s)
  ELSE Fin(s, m, e)

\* the significand after rounding up may need one more bit
Carry(s, m, e) ==
  IF m = 2 ^ Prec THEN Pack(s, 2 ^ (Prec - 1), e + 1) ELSE Pack(s, m, e)

\* q + rem / (2 * half) rounded to nearest, ties to even
Narrow(s, q, rem, half, e, sticky) ==
  IF rem > half \/ (rem = half /\ (sticky \/ q % 2 = 1))
    THEN Carry(s, q + 1, e)
    ELSE Pack(s, q, e)

RoundDrop(s, M, E, sticky, len, drop) ==
  IF drop <= 0
    THEN (IF Prec - len < E - EMin
            THEN Pack(s, M * (2 ^ (Prec - len)), E - (Prec - len))
            ELSE Pack(s, M * (2 ^ (E - EMin)), EMin))
  ELSE IF drop > len + 1 THEN Zero(s)
  ELSE Narrow(s, M \div (2 ^ drop), M % (2 ^ drop), 2 ^ (drop - 1), E + drop, sticky)

RoundBits(s, M, E, sticky, len) ==
  IF len - Prec > EMin - E
    THEN RoundDrop(s, M, E, sticky, len, len - Prec)
    ELSE RoundDrop(s, M, E, sticky, len, EMin - E)

\* The float nearest to (-1)^s * (M + t) * 2^E, where 0 <= M < 2^31 and
\* 0 <= t < 1 with t > 0 iff sticky: round to nearest, ties to even, gradual
\* underflow below 2^(EMin + Prec - 1), overflow to infinity from 2^EMax.
Round(s, M, E, sticky) ==
  IF M = 0 THEN Zero(s) ELSE RoundBits(s, M, E, sticky, BitLen(M))

\* the float nearest to n * 2^E, n a signed integer
RoundInt(n, E) == IF n < 0 THEN Round(1, -n, E, FALSE) ELSE Round(0, n, E, FALSE)

FNeg(x) == IF IsNaN(x) THEN NaN ELSE [x EXCEPT !.s = 1 - x.s]


\* x + y of two finite floats
FinAdd(x, y) ==
  IF x.m = 0 /\ y.m = 0 THEN Zero(IF x.s = 1 /\ y.s = 1 THEN 1 ELSE 0)
  ELSE IF x.m = 0 THEN y
  ELSE IF y.m = 0 THEN x
  ELSE
    LET hi == IF x.e >= y.e THEN x ELSE y
        lo == IF x.e >= y.e THEN y ELSE x
        d == hi.e - lo.e
    IN  IF d > Prec + 2 THEN hi
        ELSE
          LET a == (IF hi.s = 1 THEN -1 ELSE 1) * hi.m * (2 ^ d)
              b == (IF lo.s = 1 THEN -1 ELSE 1) * lo.m
          IN  RoundInt(a + b, lo.e)

FAdd(x, y) ==
  IF IsNaN(x) \/ IsNaN(y) THEN NaN
  ELSE IF IsInf(x) THEN (IF IsInf(y) /\ y.s # x.s THEN NaN ELSE x)
  ELSE IF IsInf(y) THEN y
  ELSE FinAdd(x, y)

FSub(x, y) == FAdd(x, FNeg(y))

FMul(x, y) ==
  LET s == (x.s + y.s) % 2
  IN  IF IsNaN(x) \/ IsNaN(y) THEN NaN
      ELSE IF IsInf(x) \/ IsInf(y)
             THEN (IF IsZero(x) \/ IsZero(y) THEN NaN ELSE Inf(s))
      ELSE Round(s, x.m * y.m, x.e + y.e, FALSE)

\* IEEE division: x / 0 is an infinity (NaN for 0 / 0), never an exception
FDiv(x, y) ==
  LET s == (x.s + y.s) % 2
  IN  IF IsNaN(x) \/ IsNaN(y) THEN NaN
      ELSE IF IsInf(x) THEN (IF IsInf(y) THEN NaN ELSE Inf(s))
      ELSE IF IsInf(y) THEN Zero(s)
      ELSE IF IsZero(y) THEN (IF IsZero(x) THEN NaN ELSE Inf(s))
      ELSE IF IsZero(x) THEN Zero(s)
      ELSE LET n == x.m * 16384
           IN  Round(s, n \div y.m, x.e - y.e - 14, n % y.m # 0)

\* the largest r with r * r <= n, built from bit b down, for n < 2^18
RECURSIVE ISqrt(_, _, _)
ISqrt(n, r, b) ==
  IF b < 0 THEN r
  ELSE IF (r + 2 ^ b) * (r + 2 ^ b) <= n THEN ISqrt(n, r + 2 ^ b, b - 1)
  ELSE ISqrt(n, r, b - 1)

FSqrt(x) ==
  IF IsNaN(x) THEN NaN
  ELSE IF IsZero(x) THEN x
  ELSE IF x.s = 1 THEN NaN
  ELSE IF IsInf(x) THEN x
  ELSE LET k == IF x.e % 2 = 0 THEN 12 ELSE 11
           n == x.m * (2 ^ k)
           r == ISqrt(n, 0, 8)
       IN  Round(0, r, (x.e - k) \div 2, r * r # n)

\* ln(2) and log2(e), in fixed point
Ln2Q20 == 726817
Log2eQ16 == 94548

\* LnTab[i] = ln((15 + i) / 16) * 2^20
LnTab ==
  << 0, 63570, 123504, 180198, 233983, 285143, 333923, 380534,
     425161, 467966, 509092, 548665, 586800, 623596, 659144, 693527 >>

\* Exp2Tab[j] = 2^((j - 1/2) / 64) * 2^12
Exp2Tab ==
  << 4118, 4163, 4208, 4254, 4301, 4347, 4395, 4443,
     4491, 4540, 4589, 4639, 4690, 4741, 4792, 4845,
     4897, 4951, 5005, 5059, 5114, 5170, 5226, 5283,
     5341, 5399, 5458, 5517, 5577, 5638, 5699, 5761,
     5824, 5887, 5952, 6016, 6082, 6148, 6215, 6283,
     6351, 6420, 6490, 6561, 6632, 6705, 6778, 6851,
     6926, 7001, 7078, 7155, 7233, 7311, 7391, 7472,
     7553, 7635, 7718, 7802, 7887, 7973, 8060, 8148 >>

\* NdtrTab[16 * (e + 11) + (m - 15)] = -log2(Phi(-m * 2^e)) * 2^10, for
\* 16 <= m <= 31 and -11 <= e <= 1; Phi(-x) is 0 in binary64 from x = 38.5 on
NdtrTab ==
  << 1033, 1034, 1034, 1035, 1036, 1036, 1037, 1037,
     1038, 1038, 1039, 1040, 1040, 1041, 1041, 1042,
     1043, 1044, 1045, 1046, 1047, 1048, 1050, 1051,
     1052, 1053, 1054, 1055, 1057, 1058, 1059, 1060,
     1061, 1064, 1066, 1068, 1071, 1073, 1076, 1078,
     1080, 1083, 1085, 1087, 1090, 1092, 1095, 1097,
     1100, 1104, 1109, 1114, 1119, 1124, 1129, 1134,
     1139, 1144, 1149, 1154, 1159, 1164, 1169, 1174,
     1179, 1189, 1199, 1210, 1220, 1230, 1241, 1251,
     1262, 1273, 1283, 1294, 1305, 1316, 1327, 1338,
     1349, 1371, 1394, 1417, 1440, 1463, 1487, 1511,
     1535, 1559, 1584, 1609, 1634, 1659, 1685, 1711,
     1737, 1790, 1845, 1900, 1956, 2014, 2073, 2132,
     2193, 2255, 2318, 2382, 2447, 2514, 2581, 2650,
     2720, 2863, 3011, 3163, 3320, 3482, 3649, 3821,
     3998, 4179, 4365, 4557, 4753, 4954, 5161, 5372,
     5589, 6037, 6507, 6996, 7507, 8039, 8592, 9166,
     9762, 10379, 11017, 11677, 12359, 13063, 13788, 14536,
     15305, 16910, 18603, 20385, 22256, 24216, 26266, 28405,
     30635, 32954, 35364, 37865, 40455, 43137, 45909, 48772,
     51726, 57907, 64453, 71363, 78640, 86282, 94290, 102664,
     111406, 120514, 129989, 139831, 150041, 160618, 171563, 182876,
     194556, 219021, 244958, 272368, 301251, 331608, 363438, 396744,
     431523, 467778, 505507, 544712, 585392, 627547, 671178, 716284,
     762867, 860459, 963956, 1073357, 1228800, 1228800, 1228800, 1228800,
     1228800, 1228800, 1228800, 1228800, 1228800, 1228800, 1228800, 1228800 >>

\* x = m * 2^e with the significand brought to Prec bits (x finite, not zero)
Norm(x) ==
  LET up == Prec - BitLen(x.m)
  IN  [m |-> x.m * (2 ^ up), e |-> x.e - up]

\* natural logarithm
FLog(x) ==
  IF IsNaN(x) THEN NaN
  ELSE IF IsZero(x) THEN Inf(1)
  ELSE IF x.s = 1 THEN NaN
  ELSE IF IsInf(x) THEN x
  ELSE LET n == Norm(x)
       IN  RoundInt((n.e + Prec - 1) * Ln2Q20 + LnTab[n.m - 2 ^ (Prec - 1) + 1], -20)

\* 2^(y / 2^16), y an integer
Exp2Q16(y) ==
  LET k == y \div 65536
      f == y % 65536
  IN  IF k > EMax THEN Inf(0)
      ELSE IF k < EMin - 2 THEN Zero(0)
      ELSE Round(0, Exp2Tab[(f \div 1024) + 1], k - 12, TRUE)

FExp(x) ==
  IF IsNaN(x) THEN NaN
  ELSE IF IsInf(x) THEN (IF x.s = 1 THEN Zero(0) ELSE x)
  ELSE IF IsZero(x) THEN Fin(0, 2 ^ (Prec - 1), 1 - Prec)
  ELSE IF x.e + BitLen(x.m) > 10 THEN (IF x.s = 1 THEN Zero(0) ELSE Inf(0))
  ELSE LET q == IF x.e >= -16 THEN x.m * (2 ^ (x.e + 16))
                ELSE IF x.e < -16 - Prec THEN 0
                ELSE x.m \div (2 ^ (-16 - x.e))
           qi == q \div 65536
           qf == q % 65536
           y == qi * Log2eQ16 + qf + ((qf * (Log2eQ16 - 65536)) \div 65536)
       IN  Exp2Q16(IF x.s = 1 THEN -y ELSE y)

\* Phi(-a) for a finite a > 0, from NdtrTab
NdtrLow(a) ==
  LET n == Norm(a)
  IN  IF n.e > 1 THEN Zero(0)
      ELSE IF n.e < -11 THEN Fin(0, 2 ^ (Prec - 1), -Prec)
      ELSE Exp2Q16(-64 * NdtrTab[16 * (n.e + 11) + (n.m - 15)])

\* 1 - low, for a float 0 <= low <= 1/2: low is taken to a multiple of 2^-24
OneMinus(low) ==
  IF low.m = 0 \/ low.e < -24 - Prec THEN Round(0, 16777216, -24, FALSE)
  ELSE IF low.e >= -24 THEN Round(0, 16777216 - low.m * (2 ^ (low.e + 24)), -24, FALSE)
  ELSE Round(0, 16777216 - (low.m \div (2 ^ (-24 - low.e))), -24, FALSE)

\* scipy.stats.norm.cdf: the standard normal distribution function
NormCdf(x) ==
  IF IsNaN(x) THEN NaN
  ELSE IF IsInf(x) THEN (IF x.s = 1 THEN Zero(0) ELSE Fin(0, 2 ^ (Prec - 1), 1 - Prec))
  ELSE IF IsZero(x) THEN Fin(0, 2 ^ (Prec - 1), -Prec)
  ELSE IF x.s = 1 THEN NdtrLow(x)
  ELSE OneMinus(NdtrLow(x))

\* x < y and x <= y (FALSE when either is NaN): the sign of x - y, which
\* gradual underflow keeps exact
FLt(x, y) == IsNeg(FSub(x, y))
FLe(x, y) ==
  /\ ~IsNaN(x) /\ ~IsNaN(y)
  /\ LET d == FSub(x, y) IN IsNaN(d) \/ IsZero(d) \/ IsNeg(d)

\* the float nearest to the integer n, 0 <= n < 2^31
FromInt(n) == Round(0, n, 0, FALSE)

\* scipy.stats.norm.pdf: exp(-x**2 / 2) / sqrt(2 * pi)
Sqrt2Pi == Fin(0, 20, -3)
NormPdf(x) == FDiv(FExp(FNeg(FDiv(FMul(x, x), Fin(0, 16, -3)))), Sqrt2Pi)

\* the literals of the source: 0.5, 1, 2, 1e-10
Half == Fin(0, 16, -5)
One == Fin(0, 16, -4)
Two == Fin(0, 16, -3)
Eps == Fin(0, 27, -38)

(***************************************************************************)
(* Python and numpy values                                                 *)
(*                                                                         *)
(* A number is a Python float (t = "py"), or a numpy value (t = "np"): a   *)
(* numpy.float64 or 0-d array (a = FALSE) or a 1-d array (a = TRUE); v     *)
(* holds its elements.  A raised exception (t = "err", x its type) is a    *)
(* value that every operation passes on, so an expression evaluates to the *)
(* exception its first failing operation raises.                           *)
(***************************************************************************)
PyFloat(f) == [t |-> "py", a |-> FALSE, v |-> <<f>>, x |-> ""]
NpFloat(f) == [t |-> "np", a |-> FALSE, v |-> <<f>>, x |-> ""]
NdArray(fs) == [t |-> "np", a |-> TRUE, v |-> fs, x |-> ""]
Raise(exc) == [t |-> "err", a |-> FALSE, v |-> <<>>, x |-> exc]

IsErr(p) == p.t = "err"

\* a broadcast that repeats the first element of an array at every index
At_first(p, i) == p.v[1]

\* element i of p broadcast to a longer shape
At(p, i) == IF p.a THEN p.v[i] ELSE p.v[1]

\* the shape of a broadcast of p and q: arrays in one call have one length
BLen(p, q) == IF Len(p.v) >= Len(q.v) THEN Len(p.v) ELSE Len(q.v)

\* a numpy binary ufunc: elementwise, with broadcasting; never raises
NpBinary(Op(_, _), p, q) ==
  [t |-> "np", a |-> p.a \/ q.a,
   v |-> [i \in 1 .. BLen(p, q) |-> Op(At(p, i), At(q, i))], x |-> ""]

\* a numpy unary ufunc (np.log, np.sqrt, np.exp) or scipy's norm.cdf / norm.pdf
NpUnary(Op(_), p) ==
  IF IsErr(p) THEN p
  ELSE [t |-> "np", a |-> p.a, v |-> [i \in 1 .. Len(p.v) |-> Op(p.v[i])], x |-> ""]

\* p + q, p - q, p * q: float arithmetic, no exception in either language
Arith(Op(_, _), p, q) ==
  IF IsErr(p) THEN p
  ELSE IF IsErr(q) THEN q
  ELSE IF p.t = "py" /\ q.t = "py" THEN PyFloat(Op(p.v[1], q.v[1]))
  ELSE NpBinary(Op, p, q)

Add(p, q) == Arith(FAdd, p, q)
Sub(p, q) == Arith(FSub, p, q)
Mul(p, q) == Arith(FMul, p, q)

\* p / q: Python's float division raises on a zero divisor; numpy's returns
\* inf or nan (with a RuntimeWarning)
TrueDiv(p, q) ==
  IF IsErr(p) THEN p
  ELSE IF IsErr(q) THEN q
  ELSE IF p.t = "py" /\ q.t = "py"
         THEN (IF IsZero(q.v[1]) THEN Raise("ZeroDivisionError")
               ELSE PyFloat(FDiv(p.v[1], q.v[1])))
  ELSE NpBinary(FDiv, p, q)

\* p ** 2: Python's float power raises when a finite base overflows
Square(p) ==
  IF IsErr(p) THEN p
  ELSE IF p.t = "py"
         THEN (IF IsFinite(p.v[1]) /\ IsInf(FMul(p.v[1], p.v[1]))
                 THEN Raise("OverflowError")
                 ELSE PyFloat(FMul(p.v[1], p.v[1])))
  ELSE NpUnary(LAMBDA f : FMul(f, f), p)

\* -p
Neg(p) ==
  IF IsErr(p) THEN p
  ELSE [p EXCEPT !.v = [i \in 1 .. Len(p.v) |-> FNeg(p.v[i])]]

np_log(p) == NpUnary(FLog, p)
np_sqrt(p) == NpUnary(FSqrt, p)
np_exp(p) == NpUnary(FExp, p)
norm_cdf(p) == NpUnary(NormCdf, p)
norm_pdf(p) == NpUnary(NormPdf, p)

\* np.array(p, dtype=float)
np_array(p) == IF IsErr(p) THEN p ELSE [p EXCEPT !.t = "np"]

\* np.where(p == 0, c, p), c a literal
np_where_zero(p, c) ==
  IF IsErr(p) THEN p
  ELSE [p EXCEPT !.t = "np",
                 !.v = [i \in 1 .. Len(p.v) |-> IF IsZero(p.v[i]) THEN c ELSE p.v[i]]]

(***************************************************************************)
(* src/bs_functions.py                                                     *)
(***************************************************************************)
\* the option types a caller may pass: the two the functions know, and one
\* they do not
OptionTypes == {"Call", "Put", "Straddle"}

\* a guard that substitutes nothing
guard_skipped(p) == p

\* lines 54-55: the guard against division by zero
guard(p) == np_where_zero(p, Eps)

\* d1 as black_scholes would compute it with the guard of option_greeks
d1_guarded(S, K, T, r, sigma) ==
  TrueDiv(Add(np_log(TrueDiv(S, K)),
              Mul(Add(r, Mul(PyFloat(Half), Square(guard(sigma)))), guard(T))),
          Mul(guard(sigma), np_sqrt(guard(T))))

\* line 19 (and 57): d1
d1_of(S, K, T, r, sigma) ==
  TrueDiv(Add(np_log(TrueDiv(S, K)),
              Mul(Add(r, Mul(PyFloat(Half), Square(sigma))), T)),
          Mul(sigma, np_sqrt(T)))

\* line 20 (and 58): d2
d2_of(d1, T, sigma) == Sub(d1, Mul(sigma, np_sqrt(T)))

\* lines 22-29: the branch on option_type, and the return
price_branch(S, K, T, r, option_type, d1, d2) ==
  IF IsErr(d2) THEN d2
  ELSE IF option_type = "Call"
         THEN Sub(Mul(S, norm_cdf(d1)),
                  Mul(Mul(K, np_exp(Mul(Neg(r), T))), norm_cdf(d2)))
  ELSE IF option_type = "Put"
         THEN Sub(Mul(Mul(K, np_exp(Mul(Neg(r), T))), norm_cdf(Neg(d2))),
                  Mul(S, norm_cdf(Neg(d1))))
  ELSE Raise("ValueError")

\* lines 20-29, from d1
price_from_d1(S, K, T, r, sigma, option_type, d1) ==
  price_branch(S, K, T, r, option_type, d1, d2_of(d1, T, sigma))

\* black_scholes(S, K, T, r, sigma, option_type): the price, or the
\* exception raised (an exception of line 19 or 20 leaves before the branch)
black_scholes(S, K, T, r, sigma, option_type) ==
  price_from_d1(S, K, T, r, sigma, option_type, d1_of(S, K, T, r, sigma))

\* lines 57-58, from the locals of lines 47-55
greeks_d1_d2(S, K, T, r, sigma, d1) ==
  [S |-> S, K |-> K, T |-> T, r |-> r, sigma |-> sigma,
   d1 |-> d1, d2 |-> d2_of(d1, T, sigma)]

\* lines 47-58: the locals of option_greeks before it branches
greeks_locals(S, K, T, r, sigma) ==
  greeks_d1_d2(np_array(S), np_array(K), guard(np_array(T)), np_array(r),
               guard(np_array(sigma)),
               d1_of(np_array(S), np_array(K), guard(np_array(T)), np_array(r),
                     guard(np_array(sigma))))

\* a Put delta without the shift by 1
delta_put_unshifted(f) == norm_cdf(f.d1)

\* lines 62 and 66
delta_call(f) == norm_cdf(f.d1)
delta_put(f) == Sub(norm_cdf(f.d1), PyFloat(One))

\* lines 63-64 and 67-68
theta_call(f) ==
  Sub(TrueDiv(Mul(Mul(Neg(f.S), norm_pdf(f.d1)), f.sigma),
              Mul(PyFloat(Two), np_sqrt(f.T))),
      Mul(Mul(Mul(f.r, f.K), np_exp(Mul(Neg(f.r), f.T))), norm_cdf(f.d2)))
theta_put(f) ==
  Add(TrueDiv(Mul(Mul(Neg(f.S), norm_pdf(f.d1)), f.sigma),
              Mul(PyFloat(Two), np_sqrt(f.T))),
      Mul(Mul(Mul(f.r, f.K), np_exp(Mul(Neg(f.r), f.T))), norm_cdf(Neg(f.d2))))

\* lines 72 and 73
gamma_of(f) == TrueDiv(norm_pdf(f.d1), Mul(Mul(f.S, f.sigma), np_sqrt(f.T)))
vega_of(f) == Mul(Mul(f.S, norm_pdf(f.d1)), np_sqrt(f.T))

Greeks(delta, gamma, theta, vega) ==
  [x |-> "", delta |-> delta, gamma |-> gamma, theta |-> theta, vega |-> vega]
GreeksRaise(exc) ==
  [x |-> exc, delta |-> Raise(exc), gamma |-> Raise(exc),
   theta |-> Raise(exc), vega |-> Raise(exc)]

\* a branch in which the Put takes gamma and vega with the sign of its delta
greeks_branch_signed(f, option_type) ==
  IF option_type = "Call"
    THEN Greeks(delta_call(f), gamma_of(f), theta_call(f), vega_of(f))
  ELSE IF option_type = "Put"
    THEN Greeks(delta_put(f), Neg(gamma_of(f)), theta_put(f), Neg(vega_of(f)))
  ELSE GreeksRaise("ValueError")

\* lines 61-75: the branch on option_type, and the return
greeks_branch(f, option_type) ==
  IF option_type = "Call"
    THEN Greeks(delta_call(f), gamma_of(f), theta_call(f), vega_of(f))
  ELSE IF option_type = "Put"
    THEN Greeks(delta_put(f), gamma_of(f), theta_put(f), vega_of(f))
  ELSE GreeksRaise("ValueError")

\* option_greeks(S, K, T, r, sigma, option_type): (delta, gamma, theta,
\* vega), or the exception raised
option_greeks(S, K, T, r, sigma, option_type) ==
  greeks_branch(greeks_locals(S, K, T, r, sigma), option_type)

(***************************************************************************)
(* Calls of the two functions                                              *)
(***************************************************************************)
\* longest array passed in one call
MaxLen == 2

\* floats near 80, 100, 1/4, 0.01, 0.05, 0.1, 0.2, 1.5 and 150
F80 == Fin(0, 20, 2)
F100 == Fin(0, 25, 2)
Quarter == Fin(0, 16, -6)
F001 == Fin(0, 20, -11)
F005 == Fin(0, 26, -9)
F01 == Fin(0, 26, -8)
F02 == Fin(0, 26, -7)
F15 == Fin(0, 24, -4)
F150 == Fin(0, 19, 3)

\* the scalar arguments tried: valid ones and the degenerate ones the
\* functions accept (S <= 0, K <= 0, T = 0, sigma = 0, r < 0)
SVals == {FNeg(F100), Zero(0), F80, F100}
KVals == {FNeg(F100), Zero(0), F100}
TVals == {Zero(0), Quarter, One}
RVals == {FNeg(F005), Zero(0), F005}
SigmaVals == {Zero(0), F02, Half}

\* the array elements tried
SElems == {F80, F100}
TElems == {Zero(0), One}
SigmaElems == {Zero(0), F02}

Arrays(elems, n) == {NdArray(fs) : fs \in [1 .. n -> elems]}
Floats(vals) == {PyFloat(f) : f \in vals}

\* all five arguments Python floats
ScalarArgs ==
  [S : Floats(SVals), K : Floats(KVals), T : Floats(TVals),
   r : Floats(RVals), sigma : Floats(SigmaVals)]

\* S an array of n elements; T and sigma floats or arrays of the same shape
ArrayArgs(n) ==
  [S : Arrays(SElems, n), K : Floats({Zero(0), F100}),
   T : Floats(TElems) \cup Arrays(TElems, n),
   r : Floats({F005}),
   sigma : Floats(SigmaElems) \cup Arrays(SigmaElems, n)]

Args == ScalarArgs \cup UNION {ArrayArgs(n) : n \in 1 .. MaxLen}

NotCalled == [t |-> "none", a |-> FALSE, v |-> <<>>, x |-> ""]
GreeksNotCalled ==
  [x |-> "none", delta |-> NotCalled, gamma |-> NotCalled,
   theta |-> NotCalled, vega |-> NotCalled]

(***************************************************************************)
(* src/app.py                                                              *)
(***************************************************************************)
\* st.number_input(label, value, min_value, max_value): what the widget may
\* return, the default or a number the user typed, always within its
\* bounds (max = +inf: no max_value)
number_input(typed, value, min, max) ==
  {x \in typed \cup {value} : FLe(min, x) /\ FLe(x, max)}

\* the widget raises (StreamlitAPIException) when its default is outside
\* its bounds
number_input_raises(value, min, max) == FLt(value, min) \/ FLt(max, value)

\* what a user may type into the widgets
TypedS == {FNeg(F100), Zero(0), F001, F100}
TypedK == {Zero(0), F100}
TypedT == {Zero(0), One}
TypedR == {FNeg(F005), Zero(0), F005}
TypedSigma == {FNeg(F02), Zero(0), F02, Half, One}
TypedSMin == {Zero(0), F001, F150}
TypedSMax == {F80}
TypedSigmaMin == {Zero(0), F02}
TypedSigmaMax == {F02, Half}

\* np.linspace(start, stop, num), num >= 2: start + i * step, the last
\* element set to stop
np_linspace(start, stop, num) ==
  LET step == FDiv(FSub(stop.v[1], start.v[1]), FromInt(num - 1))
  IN  NdArray([i \in 1 .. num |->
                 IF i = num THEN stop.v[1]
                 ELSE FAdd(FMul(FromInt(i - 1), step), start.v[1])])

\* np.meshgrid(xs, ys): two len(ys) x len(xs) arrays, here in row-major order
meshgrid_x(xs, ys) ==
  NdArray([i \in 1 .. Len(ys.v) * Len(xs.v) |-> xs.v[((i - 1) % Len(xs.v)) + 1]])
meshgrid_y(xs, ys) ==
  NdArray([i \in 1 .. Len(ys.v) * Len(xs.v) |-> ys.v[((i - 1) \div Len(xs.v)) + 1]])

\* points per axis of the heatmap, points of the Greek curves
GridPoints == 10
SweepPoints == 100

Call(fn, S, K, T, r, sigma, ot) ==
  [fn |-> fn, S |-> S, K |-> K, T |-> T, r |-> r, sigma |-> sigma, option_type |-> ot]

NoUi ==
  [S |-> NotCalled, K |-> NotCalled, T |-> NotCalled, r |-> NotCalled,
   sigma |-> NotCalled, option_type |-> "",
   S_min |-> NotCalled, S_max |-> NotCalled,
   sigma_min |-> NotCalled, sigma_max |-> NotCalled]

NoPage ==
  [option_price |-> NotCalled, greeks |-> GreeksNotCalled, error |-> "",
   option_prices |-> NotCalled, curves |-> GreeksNotCalled]

VARIABLES
  args,         \* the numeric arguments of the calls
  price,        \* per option_type: what black_scholes returned or raised
  greeks,       \* per option_type: what option_greeks returned or raised
  pc,           \* where main() is
  ui,           \* what the widgets returned
  calls,        \* the calls main() made to the two functions, in order
  page          \* what main() computed and rendered

vars == <<args, price, greeks, pc, ui, calls, page>>
core_vars == <<args, price, greeks>>
app_vars == <<pc, ui, calls, page>>

(***************************************************************************)
(* The two functions, called by any caller                                 *)
(***************************************************************************)
Init ==
  /\ args \in Args
  /\ price = [ot \in OptionTypes |-> NotCalled]
  /\ greeks = [ot \in OptionTypes |-> GreeksNotCalled]
  /\ pc = "idle" /\ ui = NoUi /\ calls = <<>> /\ page = NoPage

\* The caller tries the option types in this order, each function on its own.
Earlier(ot) ==
  IF ot = "Call" THEN {} ELSE IF ot = "Put" THEN {"Call"} ELSE {"Call", "Put"}

CallBlackScholes(ot) ==
  /\ price[ot] = NotCalled
  /\ \A o \in Earlier(ot) : price[o] # NotCalled
  /\ price' = [price EXCEPT ![ot] =
                 black_scholes(args.S, args.K, args.T, args.r, args.sigma, ot)]
  /\ UNCHANGED <<args, greeks, app_vars>>

CallOptionGreeks(ot) ==
  /\ greeks[ot] = GreeksNotCalled
  /\ \A o \in Earlier(ot) : greeks[o] # GreeksNotCalled
  /\ greeks' = [greeks EXCEPT ![ot] =
                  option_greeks(args.S, args.K, args.T, args.r, args.sigma, ot)]
  /\ UNCHANGED <<args, price, app_vars>>

Next ==
  \E ot \in OptionTypes : CallBlackScholes(ot) \/ CallOptionGreeks(ot)

Spec == Init /\ [][Next]_vars

(***************************************************************************)
(* main(): one run of the page, and its rerun                              *)
(***************************************************************************)
AppInit ==
  /\ args = CHOOSE a \in ScalarArgs : TRUE
  /\ price = [ot \in OptionTypes |-> NotCalled]
  /\ greeks = [ot \in OptionTypes |-> GreeksNotCalled]
  /\ pc = "sidebar" /\ ui = NoUi /\ calls = <<>> /\ page = NoPage

\* lines 56-63: the sidebar's widgets
Sidebar ==
  /\ pc = "sidebar"
  /\ \E S \in number_input(TypedS, F100, F001, Inf(0)),
        K \in number_input(TypedK, F100, F001, Inf(0)),
        T \in number_input(TypedT, One, F001, Inf(0)),
        r \in number_input(TypedR, F005, Zero(0), One),
        sigma \in number_input(TypedSigma, F02, Zero(0), One),
        ot \in {"Call", "Put"} :
       ui' = [ui EXCEPT !.S = PyFloat(S), !.K = PyFloat(K), !.T = PyFloat(T),
                        !.r = PyFloat(r), !.sigma = PyFloat(sigma),
                        !.option_type = ot]
  /\ pc' = "headline_price"
  /\ UNCHANGED <<core_vars, calls, page>>

\* line 66
HeadlinePrice ==
  /\ pc = "headline_price"
  /\ \E ret \in {black_scholes(ui.S, ui.K, ui.T, ui.r, ui.sigma, ui.option_type)} :
         /\ calls' = Append(calls, Call("black_scholes", ui.S, ui.K, ui.T, ui.r,
                                          ui.sigma, ui.option_type))
         /\ page' = [page EXCEPT !.option_price = ret]
         /\ pc' = IF IsErr(ret) THEN "raised" ELSE "headline_greeks"
  /\ UNCHANGED <<core_vars, ui>>

\* line 67
HeadlineGreeks ==
  /\ pc = "headline_greeks"
  /\ \E ret \in {option_greeks(ui.S, ui.K, ui.T, ui.r, ui.sigma, ui.option_type)} :
         /\ calls' = Append(calls, Call("option_greeks", ui.S, ui.K, ui.T, ui.r,
                                          ui.sigma, ui.option_type))
         /\ page' = [page EXCEPT !.greeks = ret]
         /\ pc' = IF ret.x # "" THEN "raised" ELSE "range_inputs"
  /\ UNCHANGED <<core_vars, ui>>

\* lines 97-100: the four widgets of the heatmap's ranges
RangeInputs ==
  /\ pc = "range_inputs"
  /\ LET S == ui.S.v[1]
         sigma == ui.sigma.v[1]
         half_S == FMul(S, Half)
         S_and_half == FMul(S, F15)
     IN  IF \/ number_input_raises(half_S, F001, Inf(0))
            \/ number_input_raises(S_and_half, S, Inf(0))
            \/ number_input_raises(F01, Zero(0), sigma)
            \/ number_input_raises(Half, sigma, One)
           THEN pc' = "raised" /\ ui' = ui
           ELSE /\ \E S_min \in number_input(TypedSMin, half_S, F001, Inf(0)),
                      S_max \in number_input(TypedSMax, S_and_half, S, Inf(0)),
                      sigma_min \in number_input(TypedSigmaMin, F01, Zero(0), sigma),
                      sigma_max \in number_input(TypedSigmaMax, Half, sigma, One) :
                     ui' = [ui EXCEPT !.S_min = PyFloat(S_min),
                                      !.S_max = PyFloat(S_max),
                                      !.sigma_min = PyFloat(sigma_min),
                                      !.sigma_max = PyFloat(sigma_max)]
                /\ pc' = "range_check"
  /\ UNCHANGED <<core_vars, calls, page>>

\* a range check that reports the error and goes on
RangeCheck_no_return ==
  /\ pc = "range_check"
  /\ page' = IF \/ FLe(ui.S_max.v[1], ui.S_min.v[1])
                \/ FLe(ui.sigma_max.v[1], ui.sigma_min.v[1])
               THEN [page EXCEPT !.error =
                       "Minimum values must be less than maximum values."]
               ELSE page
  /\ pc' = "heatmap"
  /\ UNCHANGED <<core_vars, ui, calls>>

\* lines 102-104
RangeCheck ==
  /\ pc = "range_check"
  /\ IF \/ FLe(ui.S_max.v[1], ui.S_min.v[1])
        \/ FLe(ui.sigma_max.v[1], ui.sigma_min.v[1])
       THEN /\ page' = [page EXCEPT !.error =
                          "Minimum values must be less than maximum values."]
            /\ pc' = "returned"
       ELSE /\ page' = page
            /\ pc' = "heatmap"
  /\ UNCHANGED <<core_vars, ui, calls>>

\* lines 106-114
Heatmap ==
  /\ pc = "heatmap"
  /\ \E S_values \in {np_linspace(ui.S_min, ui.S_max, GridPoints)},
        sigma_values \in {np_linspace(ui.sigma_min, ui.sigma_max, GridPoints)} :
     \E S_grid \in {meshgrid_x(S_values, sigma_values)},
        sigma_grid \in {meshgrid_y(S_values, sigma_values)} :
     \E ret \in {black_scholes(S_grid, ui.K, ui.T, ui.r, sigma_grid, ui.option_type)} :
         /\ calls' = Append(calls, Call("black_scholes", S_grid, ui.K, ui.T, ui.r,
                                          sigma_grid, ui.option_type))
         /\ page' = [page EXCEPT !.option_prices = ret]
         /\ pc' = IF IsErr(ret) THEN "raised" ELSE "curves"
  /\ UNCHANGED <<core_vars, ui>>

\* lines 136-139
GreekCurves ==
  /\ pc = "curves"
  /\ \E S_plot \in {np_linspace(ui.S_min, ui.S_max, SweepPoints)} :
     \E ret \in {option_greeks(S_plot, ui.K, ui.T, ui.r, ui.sigma, ui.option_type)} :
         /\ calls' = Append(calls, Call("option_greeks", S_plot, ui.K, ui.T, ui.r,
                                          ui.sigma, ui.option_type))
         /\ page' = [page EXCEPT !.curves = ret]
         /\ pc' = IF ret.x # "" THEN "raised" ELSE "done"
  /\ UNCHANGED <<core_vars, ui>>

\* Streamlit runs main() again, from the top, when the user changes a widget
Rerun ==
  /\ pc \in {"done", "returned", "raised"}
  /\ pc' = "sidebar" /\ ui' = NoUi /\ calls' = <<>> /\ page' = NoPage
  /\ UNCHANGED core_vars

AppNext ==
  \/ Sidebar \/ HeadlinePrice \/ HeadlineGreeks \/ RangeInputs
  \/ RangeCheck \/ Heatmap \/ GreekCurves \/ Rerun

AppSpec == AppInit /\ [][AppNext]_vars


(***************************************************************************)
(* Properties of black_scholes and option_greeks (under Spec)              *)
(***************************************************************************)
Elems(p) == {p.v[i] : i \in 1 .. Len(p.v)}
AllPositive(p) == \A f \in Elems(p) : IsPos(f)
AllFinite(p) == ~IsErr(p) /\ \A f \in Elems(p) : IsFinite(f)
HasZero(p) == \E f \in Elems(p) : IsZero(f)

\* the elements of one call: S is the longest argument
Indexes == 1 .. Len(args.S.v)
ZeroAt(i) == IsZero(At(args.T, i)) \/ IsZero(At(args.sigma, i))

PriceCalled(ot) == price[ot] # NotCalled
GreeksCalled(ot) == greeks[ot] # GreeksNotCalled
GreeksFinite(g) ==
  /\ g.x = ""
  /\ AllFinite(g.delta) /\ AllFinite(g.gamma)
  /\ AllFinite(g.theta) /\ AllFinite(g.vega)

\* C1: with a kind that is neither 'Call' nor 'Put', black_scholes and
\* option_greeks raise ValueError, whatever the numeric arguments, and no
\* other exception first.
UnknownKindRaisesValueError ==
  \A ot \in OptionTypes \ {"Call", "Put"} :
    /\ PriceCalled(ot) => price[ot] = Raise("ValueError")
    /\ GreeksCalled(ot) => greeks[ot] = GreeksRaise("ValueError")

\* C2: with kind 'Call' or 'Put', black_scholes and option_greeks return a
\* value for every numeric input (S <= 0, K <= 0, T = 0, sigma = 0 and r < 0
\* included) and raise nothing.
KnownKindNeverRaises ==
  \A ot \in {"Call", "Put"} :
    /\ PriceCalled(ot) => ~IsErr(price[ot])
    /\ GreeksCalled(ot) => greeks[ot].x = ""

\* the case of C3: S > 0, K > 0, and a zero among T or sigma
GuardFires ==
  /\ AllPositive(args.S) /\ AllPositive(args.K)
  /\ HasZero(args.T) \/ HasZero(args.sigma)

\* q is p with each zero element replaced by 1e-10, the others unchanged
ZerosReplaced(p, q) ==
  /\ Len(q.v) = Len(p.v)
  /\ \A i \in 1 .. Len(p.v) :
       q.v[i] = IF IsZero(p.v[i]) THEN Eps ELSE p.v[i]

GuardedLocals(f, ot) ==
  /\ ZerosReplaced(args.T, f.T) /\ ZerosReplaced(args.sigma, f.sigma)
  /\ AllFinite(f.d1) /\ AllFinite(f.d2)
  /\ greeks[ot] = greeks_branch(f, ot)

\* C3: for S > 0, K > 0 and kind 'Call' or 'Put', option_greeks called with
\* a zero T or a zero sigma computes d1 and d2 from T and sigma in which
\* each zero element is 1e-10 and every other element is unchanged, raises
\* nothing, and returns delta, gamma, theta and vega that are all finite.
GreeksGuardReplacesZeros ==
  \A ot \in {"Call", "Put"} :
    (GuardFires /\ GreeksCalled(ot)) =>
      /\ GreeksFinite(greeks[ot])
      /\ GuardedLocals(greeks_locals(args.S, args.K, args.T, args.r, args.sigma), ot)

\* option_greeks has returned for both kinds on an array sigma with a zero
\* and a non-zero element
GreeksGuardFired ==
  /\ GuardFires
  /\ args.sigma.a /\ HasZero(args.sigma) /\ ~(\A f \in Elems(args.sigma) : IsZero(f))
  /\ HasZero(args.T)
  /\ GreeksCalled("Call") /\ GreeksCalled("Put")

\* C4, as the specification states it: for S > 0, K > 0 and kind 'Call' or
\* 'Put', every price that black_scholes returns for sigma = 0 or T = 0 is
\* NaN or infinite.
PriceNonFiniteAtZero ==
  \A ot \in {"Call", "Put"} :
    (AllPositive(args.S) /\ AllPositive(args.K) /\ PriceCalled(ot)) =>
      /\ ~IsErr(price[ot])
      /\ \A i \in Indexes : ZeroAt(i) => ~IsFinite(price[ot].v[i])

UnguardedD1(d1, ot) ==
  /\ ~IsErr(d1) /\ ~IsErr(price[ot])
  /\ \A i \in Indexes :
       ZeroAt(i) =>
         /\ ~IsFinite(d1.v[i])
         /\ IsNaN(price[ot].v[i]) <=> IsNaN(d1.v[i])
         /\ ~IsInf(price[ot].v[i])

\* C4: black_scholes applies no guard: for S > 0, K > 0 and kind 'Call' or
\* 'Put', where sigma = 0 or T = 0 the division by zero makes d1 infinite or
\* NaN and nothing is raised; the price is NaN exactly where d1 is NaN (a
\* zero numerator: 0 / 0) and finite where d1 is infinite; option_greeks on
\* the same input returns finite values.
PriceUnguardedAtZero ==
  \A ot \in {"Call", "Put"} :
    (AllPositive(args.S) /\ AllPositive(args.K)) =>
      /\ PriceCalled(ot) =>
           UnguardedD1(d1_of(args.S, args.K, args.T, args.r, args.sigma), ot)
      /\ (GreeksCalled(ot) /\ \E i \in Indexes : ZeroAt(i)) =>
           GreeksFinite(greeks[ot])

\* one call of black_scholes with T = 0 has returned a finite price for one
\* element and NaN for another, and option_greeks has returned
PriceFiniteAndNaNAtZero ==
  /\ AllPositive(args.S) /\ AllPositive(args.K)
  /\ PriceCalled("Call") /\ ~IsErr(price["Call"]) /\ GreeksCalled("Call")
  /\ \E i, j \in Indexes :
       /\ ZeroAt(i) /\ IsFinite(price["Call"].v[i])
       /\ ZeroAt(j) /\ IsNaN(price["Call"].v[j])

\* C6: the gamma and the vega that option_greeks returns for 'Call' are
\* those it returns for 'Put' on the same S, K, T, r, sigma, element by
\* element (NaN for NaN), also when the guard on sigma or T fires.
GammaVegaKindIndependent ==
  (GreeksCalled("Call") /\ GreeksCalled("Put")) =>
    /\ greeks["Call"].x = "" /\ greeks["Put"].x = ""
    /\ greeks["Call"].gamma = greeks["Put"].gamma
    /\ greeks["Call"].vega = greeks["Put"].vega

\* both kinds have returned non-zero gamma and vega on an input with a zero T
GammaVegaCompared ==
  /\ GreeksCalled("Call") /\ GreeksCalled("Put")
  /\ HasZero(args.T)
  /\ \E f \in Elems(greeks["Put"].gamma) : IsPos(f)
  /\ \E f \in Elems(greeks["Put"].vega) : IsPos(f)

\* the valid inputs: S > 0, K > 0, T > 0, sigma > 0, any r
ValidInputs ==
  /\ AllPositive(args.S) /\ AllPositive(args.K)
  /\ AllPositive(args.T) /\ AllPositive(args.sigma)

InUnit(f) == FLe(Zero(0), f) /\ FLe(f, One)
InNegUnit(f) == FLe(FNeg(One), f) /\ FLe(f, Zero(0))

\* C7: for valid inputs the delta of option_greeks is in [0, 1] for 'Call'
\* and in [-1, 0] for 'Put', and the Put delta is the Call delta minus 1.
DeltaBounds ==
  ValidInputs =>
    /\ GreeksCalled("Call") =>
         ~IsErr(greeks["Call"].delta)
           /\ \A f \in Elems(greeks["Call"].delta) : InUnit(f)
    /\ GreeksCalled("Put") =>
         ~IsErr(greeks["Put"].delta)
           /\ \A f \in Elems(greeks["Put"].delta) : InNegUnit(f)
    /\ (GreeksCalled("Call") /\ GreeksCalled("Put")) =>
         greeks["Put"].delta = Sub(greeks["Call"].delta, PyFloat(One))

\* both kinds have returned a delta strictly inside its interval
DeltaCompared ==
  /\ ValidInputs /\ GreeksCalled("Call") /\ GreeksCalled("Put")
  /\ \E f \in Elems(greeks["Call"].delta) : FLt(Zero(0), f) /\ FLt(f, One)
  /\ \E f \in Elems(greeks["Put"].delta) : FLt(FNeg(One), f) /\ FLt(f, Zero(0))

\* element i of an argument, as indexing a numpy array gives it
Elem(p, i) == IF p.a THEN NpFloat(p.v[i]) ELSE p

\* the call on array S returned what the call on one element returns
SameAsScalarCall(one, ret, i) ==
  IF IsErr(ret) THEN one = ret
  ELSE /\ ret.a /\ Len(ret.v) = Len(args.S.v)
       /\ ~IsErr(one) /\ ~one.a /\ one.v = <<ret.v[i]>>

\* C8: black_scholes on an array S returns an array of the length of S whose
\* element i is what black_scholes returns on the scalar S[i] (a numpy
\* scalar; also a Python float when K is not zero) with element i of the
\* other arguments; with an unknown kind both raise the same exception.
PriceBroadcastsElementwise ==
  \A ot \in OptionTypes :
    (args.S.a /\ PriceCalled(ot)) =>
      \A i \in Indexes :
        /\ SameAsScalarCall(
             black_scholes(NpFloat(args.S.v[i]), args.K, Elem(args.T, i),
                           args.r, Elem(args.sigma, i), ot),
             price[ot], i)
        /\ ~IsZero(args.K.v[1]) =>
             SameAsScalarCall(
               black_scholes(PyFloat(args.S.v[i]), args.K, Elem(args.T, i),
                             args.r, Elem(args.sigma, i), ot),
               price[ot], i)

\* black_scholes has returned two different finite prices for an array S of
\* two different elements
PriceBroadcast ==
  /\ args.S.a /\ Len(args.S.v) >= 2 /\ args.S.v[1] # args.S.v[2]
  /\ PriceCalled("Call") /\ AllFinite(price["Call"])
  /\ price["Call"].v[1] # price["Call"].v[2]

(***************************************************************************)
(* Properties of main() (under AppSpec)                                    *)
(***************************************************************************)
\* C9: every call that main() makes to black_scholes or option_greeks has a
\* strictly positive underlying price, strike and volatility.
AppCallsOnlyPositive ==
  \A n \in 1 .. Len(calls) :
    /\ AllPositive(calls[n].S) /\ AllPositive(calls[n].K)
    /\ AllPositive(calls[n].sigma)

\* the condition of line 102, once the four range widgets have returned
RangeInvalid ==
  \/ FLe(ui.S_max.v[1], ui.S_min.v[1])
  \/ FLe(ui.sigma_max.v[1], ui.sigma_min.v[1])

HeadlineCall(c, fn) ==
  c = Call(fn, ui.S, ui.K, ui.T, ui.r, ui.sigma, ui.option_type)

\* the 10x10 grid: S from S_min to S_max along a row, sigma from sigma_min
\* to sigma_max down the rows
GridCall(c) ==
  /\ c.fn = "black_scholes"
  /\ c.K = ui.K /\ c.T = ui.T /\ c.r = ui.r /\ c.option_type = ui.option_type
  /\ c.S.a /\ Len(c.S.v) = GridPoints * GridPoints
  /\ c.sigma.a /\ Len(c.sigma.v) = GridPoints * GridPoints
  /\ c.S.v[1] = ui.S_min.v[1] /\ c.S.v[GridPoints] = ui.S_max.v[1]
  /\ c.sigma.v[1] = ui.sigma_min.v[1]
  /\ c.sigma.v[GridPoints * GridPoints] = ui.sigma_max.v[1]
  /\ \A k \in 1 .. GridPoints * GridPoints :
       /\ c.S.v[k] = c.S.v[((k - 1) % GridPoints) + 1]
       /\ c.sigma.v[k] = c.sigma.v[((k - 1) \div GridPoints) * GridPoints + 1]

\* the 100-point sweep of S from S_min to S_max
SweepCall(c) ==
  /\ c.fn = "option_greeks"
  /\ c.K = ui.K /\ c.T = ui.T /\ c.r = ui.r /\ c.sigma = ui.sigma
  /\ c.option_type = ui.option_type
  /\ c.S.a /\ Len(c.S.v) = SweepPoints
  /\ c.S.v[1] = ui.S_min.v[1] /\ c.S.v[SweepPoints] = ui.S_max.v[1]

\* C10: in one run of main() the calls are, in this order, the headline
\* black_scholes, the headline option_greeks, then, after the range check
\* and only if S_min < S_max and sigma_min < sigma_max, one black_scholes on
\* the 10x10 grid and one option_greeks on the 100-point sweep; a run whose
\* range check fails shows the error and ends with the two headline calls
\* only; a run that reaches its end has made exactly the four calls.
CallsInFixedOrder ==
  /\ Len(calls) <= 4
  /\ Len(calls) >= 1 => HeadlineCall(calls[1], "black_scholes")
  /\ Len(calls) >= 2 => HeadlineCall(calls[2], "option_greeks")
  /\ Len(calls) >= 3 => GridCall(calls[3]) /\ ~RangeInvalid
  /\ Len(calls) >= 4 => SweepCall(calls[4])
  /\ pc \in {"range_inputs", "range_check", "heatmap", "returned"} => Len(calls) = 2
  /\ pc = "returned" => RangeInvalid
  /\ pc = "heatmap" => ~RangeInvalid
  /\ pc = "curves" => Len(calls) = 3
  /\ pc = "done" => Len(calls) = 4
  /\ page.error # "" <=> pc = "returned"

\* a run has reached its end after the grid call and the sweep call
AllFourCallsMade ==
  /\ pc = "done" /\ Len(calls) = 4
  /\ calls[3].fn = "black_scholes" /\ calls[4].fn = "option_greeks"

=============================================================================
